---- MODULE Spec2Model ----
(***************************************************************************)
(* A model of the Hotel aggregate of Hotel_Management_System.py: the room  *)
(* and guest registries, the reservations with their lifecycle flags and   *)
(* charges, and the operations the menu loop of main() calls on them.      *)
(*                                                                         *)
(* Python dicts keep insertion order, so each registry is a sequence of    *)
(* records in insertion order with unique keys.  A Reservation holds       *)
(* references to a Room and a Guest object of the registries; there is no  *)
(* deletion and no replacement of a registry entry, so the reference is    *)
(* modelled by the key (room_number, guest_id) and room.is_occupied is     *)
(* read and written through the registry.                                  *)
(*                                                                         *)
(* Dates are day numbers (datetime.date ordinals); prices and charges are  *)
(* Python floats, modelled as a binary floating-point format with          *)
(* MantissaBits significant bits and round-half-to-even, in units in which *)
(* the prices used are whole numbers.                                      *)
(*                                                                         *)
(* Every method validates before it assigns: the error it raises, or "OK", *)
(* is an operator of the state and the arguments (add_room_error, ...),    *)
(* and a call that raises is a step that changes nothing.  The error kinds *)
(* name the ValueError messages: "already exists" is DuplicateKey, "not    *)
(* found" is NotFound, "already occupied" and "not available for the       *)
(* selected dates" are Conflict, "already checked in", "not checked in"    *)
(* and "already checked out" are InvalidState.                             *)
(*                                                                         *)
(* Spec is the session that never touches the data file.  SpecPersist adds *)
(* the menu's Save Data and Load Data and a file that may exist before the *)
(* program starts; a loaded Hotel replaces the session's hotel, its         *)
(* reservations referring to the loaded registries by the same keys.       *)
(***************************************************************************)
EXTENDS Integers, Sequences, FiniteSets, TLC

VARIABLES
    rooms,                \* Hotel.rooms: room records in insertion order
    guests,               \* Hotel.guests: guest records in insertion order
    reservations,         \* Hotel.reservations: reservation records in insertion order
    next_reservation_id,  \* Hotel.next_reservation_id
    succeeded,            \* history: the <<operation, reservation_id>> of every
                          \* check_in / check_out call that has returned normally
    hotel_name,           \* Hotel.name
    file                  \* the data file: <<>> while it does not exist, else <<data>>
                          \* with the JSON document save_to_file wrote or a user supplied

hotel == <<hotel_name, rooms, guests, reservations, next_reservation_id>>
vars == <<rooms, guests, reservations, next_reservation_id, succeeded, hotel_name, file>>

----------------------------------------------------------------------------
(* Bounds and input sets *)

MaxReservations == 2      \* make_reservation is called while fewer are stored
MaxServices == 2          \* add_service is called while the hotel holds fewer services
MantissaBits == 3         \* significant bits of the modelled float format

RoomNumbers == {"101", "102"}
RoomTypes == {"Single"}
RoomPrices == {8}
GuestIds == {"G001"}
GuestNames == {"John Doe"}
\* The <<check_in_date, check_out_date>> pairs a caller may type: stays that are
\* adjacent, stays that overlap by one day, and a stay of zero nights
Stays == {<<1, 2>>, <<2, 3>>, <<1, 3>>, <<2, 2>>}
ServiceNames == {"Spa"}
ServicePrices == {1}

MaxStoredReservations == 1   \* reservations in a hotel that is saved and loaded
StoredStays == {<<1, 2>>, <<2, 3>>}

----------------------------------------------------------------------------
(* Float arithmetic: the result of + and * is the exact result rounded to   *)
(* MantissaBits significant bits, ties to even.                            *)

RECURSIVE Pow2(_)
Pow2(n) == IF n = 0 THEN 1 ELSE 2 * Pow2(n - 1)

RoundToUlp(x, u) ==
    LET q == x \div u
        r == x % u
    IN  IF 2 * r < u THEN q * u
        ELSE IF 2 * r > u THEN (q + 1) * u
        ELSE IF q % 2 = 0 THEN q * u ELSE (q + 1) * u

RECURSIVE RoundMagnitude(_, _)
RoundMagnitude(x, u) ==
    IF x < Pow2(MantissaBits) * u THEN RoundToUlp(x, u) ELSE RoundMagnitude(x, 2 * u)

Round(x) == IF x < 0 THEN 0 - RoundMagnitude(0 - x, 1) ELSE RoundMagnitude(x, 1)

FloatAdd(a, b) == Round(a + b)
FloatMul(a, n) == Round(a * n)

\* sum(price for _, price in services_used): left to right, starting from 0
RECURSIVE SumPrices(_)
SumPrices(services) ==
    IF services = <<>> THEN 0
    ELSE FloatAdd(SumPrices(SubSeq(services, 1, Len(services) - 1)),
                  services[Len(services)][2])

----------------------------------------------------------------------------
(* Registries *)

HasRoom(room_number) == \E i \in DOMAIN rooms : rooms[i].room_number = room_number
RoomIndex(room_number) == CHOOSE i \in DOMAIN rooms : rooms[i].room_number = room_number
GetRoom(room_number) == rooms[RoomIndex(room_number)]

HasGuest(guest_id) == \E i \in DOMAIN guests : guests[i].guest_id = guest_id

HasReservation(reservation_id) ==
    \E i \in DOMAIN reservations : reservations[i].reservation_id = reservation_id
ReservationIndex(reservation_id) ==
    CHOOSE i \in DOMAIN reservations : reservations[i].reservation_id = reservation_id

\* f"RES-{n}"
FormatResId(n) == <<"RES-", n>>

\* The reservation ids a caller may type: those that can exist and one that cannot
ReservationIds == {FormatResId(n) : n \in 1..(MaxReservations + 1)}

Room(room_number, room_type, price_per_night) ==
    [room_number |-> room_number, room_type |-> room_type,
     price_per_night |-> price_per_night, is_occupied |-> FALSE]

Guest(guest_id, name) ==
    [guest_id |-> guest_id, name |-> name, email |-> "john@example.com", phone |-> "555-0101"]

\* Reservation.__init__; room is the Room record of the registry
Reservation(reservation_id, guest_id, room, check_in_date, check_out_date) ==
    [reservation_id |-> reservation_id, guest |-> guest_id, room |-> room.room_number,
     check_in_date |-> check_in_date, check_out_date |-> check_out_date,
     is_checked_in |-> FALSE, is_checked_out |-> FALSE,
     services_used |-> <<>>,
     total_charges |-> FloatMul(room.price_per_night, check_out_date - check_in_date)]

calculate_total_charges(reservation) ==
    LET nights == reservation.check_out_date - reservation.check_in_date
        room_charges == FloatMul(GetRoom(reservation.room).price_per_night, nights)
        service_charges == SumPrices(reservation.services_used)
    IN  FloatAdd(room_charges, service_charges)

----------------------------------------------------------------------------
(* Operations *)

\* raise ValueError(...): nothing has been assigned
Raise == UNCHANGED vars

Init ==
    /\ rooms = <<>>
    /\ guests = <<>>
    /\ reservations = <<>>
    /\ next_reservation_id = 1
    /\ succeeded = {}
    /\ hotel_name = "Grand Hotel"
    /\ file = <<>>

add_room_error(room_number) == IF HasRoom(room_number) THEN "DuplicateKey" ELSE "OK"

\* lines 66-69 (the _Overwrite variant omits lines 67-68: the dict entry is assigned
\* whether or not the key is present)
add_room_Overwrite(room_number, room_type, price_per_night) ==
    IF HasRoom(room_number)
    THEN /\ rooms' = [rooms EXCEPT ![RoomIndex(room_number)] =
                                      Room(room_number, room_type, price_per_night)]
         /\ UNCHANGED <<guests, reservations, next_reservation_id, succeeded, hotel_name, file>>
    ELSE /\ rooms' = Append(rooms, Room(room_number, room_type, price_per_night))
         /\ UNCHANGED <<guests, reservations, next_reservation_id, succeeded, hotel_name, file>>

add_room(room_number, room_type, price_per_night) ==
    IF add_room_error(room_number) # "OK" THEN Raise
    ELSE /\ rooms' = Append(rooms, Room(room_number, room_type, price_per_night))
         /\ UNCHANGED <<guests, reservations, next_reservation_id, succeeded, hotel_name, file>>

add_guest_error(guest_id) == IF HasGuest(guest_id) THEN "DuplicateKey" ELSE "OK"

add_guest(guest_id, name) ==
    IF add_guest_error(guest_id) # "OK" THEN Raise
    ELSE /\ guests' = Append(guests, Guest(guest_id, name))
         /\ UNCHANGED <<rooms, reservations, next_reservation_id, succeeded, hotel_name, file>>

\* lines 90-91: the requested dates against one stored reservation
\* (the _Contained and _Inclusive variants are faulty forms of the test)
ReservationConflicts_Contained(check_in_date, check_out_date, reservation) ==
    /\ check_in_date >= reservation.check_in_date
    /\ check_out_date <= reservation.check_out_date

ReservationConflicts_Inclusive(check_in_date, check_out_date, reservation) ==
    /\ check_in_date <= reservation.check_out_date
    /\ check_out_date >= reservation.check_in_date

ReservationConflicts(check_in_date, check_out_date, reservation) ==
    /\ check_in_date < reservation.check_out_date
    /\ check_out_date > reservation.check_in_date

\* lines 78-92: the checks of make_reservation, in order
\* (the _NoOccupiedCheck variant omits lines 84-85)
make_reservation_error_NoOccupiedCheck(guest_id, room_number, check_in_date, check_out_date) ==
    IF ~HasGuest(guest_id) THEN "NotFound"
    ELSE IF ~HasRoom(room_number) THEN "NotFound"
    ELSE IF \E i \in DOMAIN reservations :
                /\ reservations[i].room = room_number
                /\ ReservationConflicts(check_in_date, check_out_date, reservations[i])
         THEN "Conflict"
    ELSE "OK"

make_reservation_error(guest_id, room_number, check_in_date, check_out_date) ==
    IF ~HasGuest(guest_id) THEN "NotFound"
    ELSE IF ~HasRoom(room_number) THEN "NotFound"
    ELSE IF GetRoom(room_number).is_occupied THEN "Conflict"
    ELSE IF \E i \in DOMAIN reservations :
                /\ reservations[i].room = room_number
                /\ ReservationConflicts(check_in_date, check_out_date, reservations[i])
         THEN "Conflict"
    ELSE "OK"

\* lines 94-100: the id is formatted from the counter, the counter is incremented,
\* the Reservation is constructed, stored and returned
\* (the _NoIncrement variant omits line 95)
StoreReservation_NoIncrement(guest_id, room_number, check_in_date, check_out_date) ==
    LET reservation_id == FormatResId(next_reservation_id)
        reservation == Reservation(reservation_id, guest_id, GetRoom(room_number),
                                   check_in_date, check_out_date)
    IN  /\ reservations' = Append(reservations, reservation)
        /\ UNCHANGED <<rooms, guests, next_reservation_id, succeeded, hotel_name, file>>

StoreReservation(guest_id, room_number, check_in_date, check_out_date) ==
    LET reservation_id == FormatResId(next_reservation_id)
        reservation == Reservation(reservation_id, guest_id, GetRoom(room_number),
                                   check_in_date, check_out_date)
    IN  /\ next_reservation_id' = next_reservation_id + 1
        /\ reservations' = Append(reservations, reservation)
        /\ UNCHANGED <<rooms, guests, succeeded, hotel_name, file>>

make_reservation(guest_id, room_number, check_in_date, check_out_date) ==
    /\ Len(reservations) < MaxReservations
    /\ IF make_reservation_error(guest_id, room_number, check_in_date, check_out_date) # "OK"
       THEN Raise
       ELSE StoreReservation(guest_id, room_number, check_in_date, check_out_date)

\* reservation.room.is_occupied = value, through the registry entry the reservation refers to
\* (the _AllRooms variant assigns the flag of every room of the registry)
SetOccupied_AllRooms(room_number, value) ==
    [i \in DOMAIN rooms |-> [rooms[i] EXCEPT !.is_occupied = value]]

SetOccupied(room_number, value) ==
    [rooms EXCEPT ![RoomIndex(room_number)].is_occupied = value]

\* lines 103-108 (the _NoGuard variant omits lines 107-108)
check_in_error_NoGuard(reservation_id) ==
    IF ~HasReservation(reservation_id) THEN "NotFound" ELSE "OK"

check_in_error(reservation_id) ==
    IF ~HasReservation(reservation_id) THEN "NotFound"
    ELSE IF reservations[ReservationIndex(reservation_id)].is_checked_in THEN "InvalidState"
    ELSE "OK"

\* lines 102-111 (the _EarlyOccupy variant assigns room.is_occupied before the test
\* of line 107)
check_in_EarlyOccupy(reservation_id) ==
    IF check_in_error(reservation_id) = "NotFound" THEN Raise
    ELSE LET i == ReservationIndex(reservation_id) IN
         IF check_in_error(reservation_id) # "OK"
         THEN /\ rooms' = SetOccupied(reservations[i].room, TRUE)
              /\ UNCHANGED <<guests, reservations, next_reservation_id, succeeded, hotel_name, file>>
         ELSE /\ reservations' = [reservations EXCEPT ![i].is_checked_in = TRUE]
              /\ rooms' = SetOccupied(reservations[i].room, TRUE)
              /\ succeeded' = succeeded \cup {<<"check_in", reservation_id>>}
              /\ UNCHANGED <<guests, next_reservation_id, hotel_name, file>>

check_in(reservation_id) ==
    IF check_in_error(reservation_id) # "OK" THEN Raise
    ELSE LET i == ReservationIndex(reservation_id) IN
         /\ reservations' = [reservations EXCEPT ![i].is_checked_in = TRUE]
         /\ rooms' = SetOccupied(reservations[i].room, TRUE)
         /\ succeeded' = succeeded \cup {<<"check_in", reservation_id>>}
         /\ UNCHANGED <<guests, next_reservation_id, hotel_name, file>>

\* lines 114-121 (the _NoCheckedInGuard variant omits lines 118-119)
check_out_error_NoCheckedInGuard(reservation_id) ==
    IF ~HasReservation(reservation_id) THEN "NotFound"
    ELSE IF reservations[ReservationIndex(reservation_id)].is_checked_out THEN "InvalidState"
    ELSE "OK"

check_out_error(reservation_id) ==
    IF ~HasReservation(reservation_id) THEN "NotFound"
    ELSE IF ~reservations[ReservationIndex(reservation_id)].is_checked_in THEN "InvalidState"
    ELSE IF reservations[ReservationIndex(reservation_id)].is_checked_out THEN "InvalidState"
    ELSE "OK"

\* lines 113-125 (the _ClearsCheckedIn variant also resets is_checked_in)
check_out_ClearsCheckedIn(reservation_id) ==
    IF check_out_error(reservation_id) # "OK" THEN Raise
    ELSE LET i == ReservationIndex(reservation_id) IN
         /\ reservations' = [reservations EXCEPT
                                ![i].is_checked_in = FALSE,
                                ![i].is_checked_out = TRUE,
                                ![i].total_charges = calculate_total_charges(reservations[i])]
         /\ rooms' = SetOccupied(reservations[i].room, FALSE)
         /\ succeeded' = succeeded \cup {<<"check_out", reservation_id>>}
         /\ UNCHANGED <<guests, next_reservation_id, hotel_name, file>>

check_out(reservation_id) ==
    IF check_out_error(reservation_id) # "OK" THEN Raise
    ELSE LET i == ReservationIndex(reservation_id) IN
         /\ reservations' = [reservations EXCEPT
                                ![i].is_checked_out = TRUE,
                                ![i].total_charges = calculate_total_charges(reservations[i])]
         /\ rooms' = SetOccupied(reservations[i].room, FALSE)
         /\ succeeded' = succeeded \cup {<<"check_out", reservation_id>>}
         /\ UNCHANGED <<guests, next_reservation_id, hotel_name, file>>

RECURSIVE CountServices(_)
CountServices(n) ==
    IF n = 0 THEN 0 ELSE CountServices(n - 1) + Len(reservations[n].services_used)
ServicesStored == CountServices(Len(reservations))

\* main(), choice "8": an unknown id is reported and nothing is called;
\* otherwise Reservation.add_service appends the pair and adds the price
add_service_error(reservation_id) ==
    IF ~HasReservation(reservation_id) THEN "NotFound" ELSE "OK"

add_service(reservation_id, service_name, price) ==
    IF add_service_error(reservation_id) # "OK" THEN Raise
    ELSE LET i == ReservationIndex(reservation_id) IN
         /\ ServicesStored < MaxServices
         /\ reservations' = [reservations EXCEPT
                ![i].services_used = Append(@, <<service_name, price>>),
                ![i].total_charges = FloatAdd(@, price)]
         /\ UNCHANGED <<rooms, guests, next_reservation_id, succeeded, hotel_name, file>>

\* lines 140-141: the requested dates against one stored reservation
\* (the _Inclusive variant compares with <= and >=)
RoomBlocked_Inclusive(check_in_date, check_out_date, reservation) ==
    /\ check_in_date <= reservation.check_out_date
    /\ check_out_date >= reservation.check_in_date

RoomBlocked(check_in_date, check_out_date, reservation) ==
    /\ check_in_date < reservation.check_out_date
    /\ check_out_date > reservation.check_in_date

\* lines 131-145 for one room of the registry
\* (the _IgnoreOccupied variant omits lines 134-135)
IsAvailable_IgnoreOccupied(room, check_in_date, check_out_date) ==
    ~\E i \in DOMAIN reservations :
          /\ reservations[i].room = room.room_number
          /\ RoomBlocked(check_in_date, check_out_date, reservations[i])

IsAvailable(room, check_in_date, check_out_date) ==
    IF room.is_occupied THEN FALSE
    ELSE ~\E i \in DOMAIN reservations :
               /\ reservations[i].room = room.room_number
               /\ RoomBlocked(check_in_date, check_out_date, reservations[i])

\* the list get_available_rooms returns: the rooms appended in registry order
available_rooms(check_in_date, check_out_date) ==
    SelectSeq(rooms, LAMBDA room : IsAvailable(room, check_in_date, check_out_date))

\* get_available_rooms builds and returns the list and assigns no attribute of the
\* hotel, a room or a reservation
get_available_rooms(check_in_date, check_out_date) ==
    /\ Len(available_rooms(check_in_date, check_out_date)) <= Len(rooms)
    /\ UNCHANGED vars

----------------------------------------------------------------------------
(* main(): the menu loop calls one operation at a time *)

AddRoom == \E n \in RoomNumbers, t \in RoomTypes, p \in RoomPrices : add_room(n, t, p)
AddGuest == \E g \in GuestIds, n \in GuestNames : add_guest(g, n)
MakeReservation ==
    \E g \in GuestIds, n \in RoomNumbers, d \in Stays : make_reservation(g, n, d[1], d[2])
CheckIn == \E r \in ReservationIds : check_in(r)
CheckOut == \E r \in ReservationIds : check_out(r)
AddService ==
    \E r \in ReservationIds, s \in ServiceNames, p \in ServicePrices : add_service(r, s, p)
GetAvailableRooms == \E d \in Stays : get_available_rooms(d[1], d[2])

Next ==
    \/ AddRoom
    \/ AddGuest
    \/ MakeReservation
    \/ CheckIn
    \/ CheckOut
    \/ AddService
    \/ GetAvailableRooms

Spec == Init /\ [][Next]_vars

----------------------------------------------------------------------------
(* The data file: save_to_file writes the hotel as a JSON document and      *)
(* load_from_file builds a new Hotel from a document.  The document holds   *)
(* text: a number is its decimal digits, a date is its ISO text, and a      *)
(* reservation names its guest and room by id.                              *)

\* json.dump / json.load of a number: the decimal digits of a value that is a
\* whole, non-negative number of the model's units
RECURSIVE json_dump_number(_)
json_dump_number(x) ==
    IF x < 10 THEN <<x>> ELSE Append(json_dump_number(x \div 10), x % 10)

RECURSIVE json_load_number(_)
json_load_number(digits) ==
    IF Len(digits) = 1 THEN digits[1]
    ELSE json_load_number(SubSeq(digits, 1, Len(digits) - 1)) * 10 + digits[Len(digits)]

\* datetime.date.isoformat / fromisoformat for the days of one month: "2024-01-DD"
isoformat(date) == <<"2024-01-", date \div 10, date % 10>>
fromisoformat(text) == text[2] * 10 + text[3]

\* a (name, price) tuple or [name, price] list of services_used as a JSON array
ServiceData(service) == <<service[1], json_dump_number(service[2])>>

\* a JSON array read back is a Python list [name, price], not the tuple that
\* add_service appended: indexing and unpacking treat both alike, and the third
\* component records the difference
LoadService(service_data) == <<service_data[1], json_load_number(service_data[2]), "list">>

\* lines 155-160, 165-170 and 175-184: one entry of the document
RoomData(room) ==
    [room_number |-> room.room_number, room_type |-> room.room_type,
     price_per_night |-> json_dump_number(room.price_per_night),
     is_occupied |-> room.is_occupied]

GuestData(guest) ==
    [guest_id |-> guest.guest_id, name |-> guest.name,
     email |-> guest.email, phone |-> guest.phone]

ReservationData(res) ==
    [reservation_id |-> res.reservation_id,
     guest_id |-> res.guest,
     room_number |-> res.room,
     check_in_date |-> isoformat(res.check_in_date),
     check_out_date |-> isoformat(res.check_out_date),
     is_checked_in |-> res.is_checked_in,
     is_checked_out |-> res.is_checked_out,
     services_used |-> [k \in DOMAIN res.services_used |-> ServiceData(res.services_used[k])],
     total_charges |-> json_dump_number(res.total_charges)]

\* lines 151-186: the document of the current hotel
data ==
    [name |-> hotel_name,
     next_reservation_id |-> json_dump_number(next_reservation_id),
     rooms |-> [i \in DOMAIN rooms |-> RoomData(rooms[i])],
     guests |-> [i \in DOMAIN guests |-> GuestData(guests[i])],
     reservations |-> [i \in DOMAIN reservations |-> ReservationData(reservations[i])]]

\* lines 188-189: the file is created or overwritten
save_to_file ==
    /\ file' = <<data>>
    /\ UNCHANGED <<rooms, guests, reservations, next_reservation_id, succeeded, hotel_name>>

\* the key under which load_from_file stores an object: room.room_number,
\* guest.guest_id, reservation.reservation_id
Key(object) ==
    IF "room_number" \in DOMAIN object THEN object.room_number
    ELSE IF "reservation_id" \in DOMAIN object THEN object.reservation_id
    ELSE object.guest_id

\* dict[key] = value, "key in dict" and dict[key] on a registry in insertion order
Put(dict, value) ==
    IF \E i \in DOMAIN dict : Key(dict[i]) = Key(value)
    THEN [i \in DOMAIN dict |-> IF Key(dict[i]) = Key(value) THEN value ELSE dict[i]]
    ELSE Append(dict, value)

Has(dict, key) == \E i \in DOMAIN dict : Key(dict[i]) = key
Lookup(dict, key) == dict[CHOOSE i \in DOMAIN dict : Key(dict[i]) = key]

\* lines 200-207: a Room from its entry
LoadRoom(room_data) ==
    [Room(room_data.room_number, room_data.room_type,
          json_load_number(room_data.price_per_night))
        EXCEPT !.is_occupied = room_data.is_occupied]

\* lines 199-207: the first n entries put into hotel.rooms
RECURSIVE LoadRooms(_, _)
LoadRooms(room_list, n) ==
    IF n = 0 THEN <<>>
    ELSE Put(LoadRooms(room_list, n - 1), LoadRoom(room_list[n]))

\* lines 210-217: the first n entries put into hotel.guests
RECURSIVE LoadGuests(_, _)
LoadGuests(guest_list, n) ==
    IF n = 0 THEN <<>>
    ELSE Put(LoadGuests(guest_list, n - 1),
             Guest(guest_list[n].guest_id, guest_list[n].name))

\* lines 221-235 (the _DefaultCharges variant omits line 235: total_charges stays what
\* Reservation.__init__ computed)
LoadReservation_DefaultCharges(res_data, loaded_rooms, loaded_guests) ==
    LET guest == Lookup(loaded_guests, res_data.guest_id)
        room == Lookup(loaded_rooms, res_data.room_number)
    IN  [Reservation(res_data.reservation_id, guest.guest_id, room,
                     fromisoformat(res_data.check_in_date),
                     fromisoformat(res_data.check_out_date))
            EXCEPT !.is_checked_in = res_data.is_checked_in,
                   !.is_checked_out = res_data.is_checked_out,
                   !.services_used =
                       [k \in DOMAIN res_data.services_used |->
                           LoadService(res_data.services_used[k])]]

\* lines 221-235: a Reservation from its entry, its guest and room looked up by
\* id in the registries just loaded
LoadReservation(res_data, loaded_rooms, loaded_guests) ==
    LET guest == Lookup(loaded_guests, res_data.guest_id)
        room == Lookup(loaded_rooms, res_data.room_number)
    IN  [Reservation(res_data.reservation_id, guest.guest_id, room,
                     fromisoformat(res_data.check_in_date),
                     fromisoformat(res_data.check_out_date))
            EXCEPT !.is_checked_in = res_data.is_checked_in,
                   !.is_checked_out = res_data.is_checked_out,
                   !.services_used =
                       [k \in DOMAIN res_data.services_used |->
                           LoadService(res_data.services_used[k])],
                   !.total_charges = json_load_number(res_data.total_charges)]

\* lines 220-237: the first n entries put into hotel.reservations
RECURSIVE LoadReservations(_, _, _, _)
LoadReservations(res_list, n, loaded_rooms, loaded_guests) ==
    IF n = 0 THEN <<>>
    ELSE Put(LoadReservations(res_list, n - 1, loaded_rooms, loaded_guests),
             LoadReservation(res_list[n], loaded_rooms, loaded_guests))

\* lines 221-222: hotel.guests[...] and hotel.rooms[...] raise KeyError for an id
\* that is not a key of the loaded registry
load_from_file_error(json_data) ==
    LET loaded_rooms == LoadRooms(json_data.rooms, Len(json_data.rooms))
        loaded_guests == LoadGuests(json_data.guests, Len(json_data.guests))
    IN  IF \E k \in DOMAIN json_data.reservations :
              \/ ~Has(loaded_guests, json_data.reservations[k].guest_id)
              \/ ~Has(loaded_rooms, json_data.reservations[k].room_number)
        THEN "KeyError"
        ELSE "OK"

\* lines 195-239: the Hotel load_from_file returns
LoadedHotel(json_data) ==
    LET loaded_rooms == LoadRooms(json_data.rooms, Len(json_data.rooms))
        loaded_guests == LoadGuests(json_data.guests, Len(json_data.guests))
    IN  [name |-> json_data.name,
         next_reservation_id |-> json_load_number(json_data.next_reservation_id),
         rooms |-> loaded_rooms,
         guests |-> loaded_guests,
         reservations |->
             LoadReservations(json_data.reservations, Len(json_data.reservations),
                              loaded_rooms, loaded_guests)]

\* the check_in and check_out calls the flags of loaded reservations record
Recorded(loaded_reservations) ==
    {<<"check_in", loaded_reservations[i].reservation_id>> :
        i \in {k \in DOMAIN loaded_reservations : loaded_reservations[k].is_checked_in}}
    \cup
    {<<"check_out", loaded_reservations[i].reservation_id>> :
        i \in {k \in DOMAIN loaded_reservations : loaded_reservations[k].is_checked_out}}

\* main(), line 361: hotel = Hotel.load_from_file(filename).  A KeyError leaves
\* load_from_file before it returns, so the assignment does not happen and the
\* loop goes on with the hotel it had.
load_from_file(json_data) ==
    IF load_from_file_error(json_data) # "OK" THEN UNCHANGED vars
    ELSE LET loaded == LoadedHotel(json_data)
         IN  /\ hotel_name' = loaded.name
             /\ next_reservation_id' = loaded.next_reservation_id
             /\ rooms' = loaded.rooms
             /\ guests' = loaded.guests
             /\ reservations' = loaded.reservations
             /\ succeeded' = Recorded(loaded.reservations)
             /\ UNCHANGED file

\* main(), choices "9" and "10"; line 360: a missing file is reported, not loaded
SaveData == save_to_file
LoadData == IF file = <<>> THEN UNCHANGED vars ELSE load_from_file(file[1])

\* Documents a user may supply before the program starts: another hotel with one
\* room, one guest and one reservation; the same with the reservation naming a
\* room that is not in the document; and the same with the guest list empty
UserData ==
    LET room == Room("101", "Single", 8)
        guest == Guest("G001", "John Doe")
        valid == [name |-> "Sea View",
                  next_reservation_id |-> json_dump_number(2),
                  rooms |-> <<RoomData(room)>>,
                  guests |-> <<GuestData(guest)>>,
                  reservations |->
                      <<ReservationData(Reservation(FormatResId(1), "G001", room, 1, 2))>>]
    IN  {valid,
         [valid EXCEPT !.reservations[1].room_number = "102"],
         [valid EXCEPT !.guests = <<>>]}

InitPersist ==
    /\ rooms = <<>>
    /\ guests = <<>>
    /\ reservations = <<>>
    /\ next_reservation_id = 1
    /\ succeeded = {}
    /\ hotel_name = "Grand Hotel"
    /\ file \in {<<>>} \cup {<<d>> : d \in UserData}

\* With the file, the session makes reservations for two adjacent stays while
\* the hotel holds fewer than MaxStoredReservations
MakeStoredReservation ==
    /\ Len(reservations) < MaxStoredReservations
    /\ \E g \in GuestIds, n \in RoomNumbers, d \in StoredStays :
           make_reservation(g, n, d[1], d[2])

NextPersist ==
    \/ AddRoom
    \/ AddGuest
    \/ MakeStoredReservation
    \/ CheckIn
    \/ CheckOut
    \/ AddService
    \/ GetAvailableRooms
    \/ SaveData
    \/ LoadData

SpecPersist == InitPersist /\ [][NextPersist]_vars

----------------------------------------------------------------------------
(* Properties *)

\* ci < existing.check_out_date AND co > existing.check_in_date
Overlap(ci, co, existing) ==
    ci < existing.check_out_date /\ co > existing.check_in_date

\* some stored reservation on the room overlaps [ci, co)
OverlapOnRoom(room_number, ci, co) ==
    \E i \in DOMAIN reservations :
        reservations[i].room = room_number /\ Overlap(ci, co, reservations[i])

\* C1: any two distinct reservations on the same room have non-overlapping
\* half-open intervals: NOT (a.check_in < b.check_out AND a.check_out > b.check_in).
C1_NoOverlapOnSameRoom ==
    \A i, j \in DOMAIN reservations :
        (i # j /\ reservations[i].room = reservations[j].room) =>
            ~(/\ reservations[i].check_in_date < reservations[j].check_out_date
              /\ reservations[i].check_out_date > reservations[j].check_in_date)

\* two reservations are held on one room, one starting the day the other ends
C1_Witness ==
    \E i, j \in DOMAIN reservations :
        /\ i # j
        /\ reservations[i].room = reservations[j].room
        /\ reservations[i].check_out_date = reservations[j].check_in_date

\* C2: make_reservation for a known guest on a known room whose is_occupied is
\* true fails with Conflict whatever the dates are, and stores no reservation.
C2_OccupiedRoomConflict ==
    /\ [](\A g \in GuestIds, n \in RoomNumbers, d \in Stays :
              (HasGuest(g) /\ HasRoom(n) /\ GetRoom(n).is_occupied) =>
                  make_reservation_error(g, n, d[1], d[2]) = "Conflict")
    /\ [][\A g \in GuestIds, n \in RoomNumbers, d \in Stays :
              (/\ HasGuest(g) /\ HasRoom(n) /\ GetRoom(n).is_occupied
               /\ make_reservation(g, n, d[1], d[2]))
              => reservations' = reservations]_vars

\* a request on an occupied room whose dates overlap no reservation of the room
\* can be made and is refused with Conflict
C2_Witness ==
    \E g \in GuestIds, n \in RoomNumbers, d \in Stays :
        /\ HasGuest(g) /\ HasRoom(n) /\ GetRoom(n).is_occupied
        /\ ~OverlapOnRoom(n, d[1], d[2])
        /\ Len(reservations) < MaxReservations
        /\ make_reservation_error(g, n, d[1], d[2]) = "Conflict"

\* C3: on a stored reservation check_in succeeds exactly when no check_in on it
\* has succeeded before, check_out succeeds exactly when a check_in on it has
\* succeeded and no check_out has; every other call fails with InvalidState.
C3_CheckInCheckOutOnce ==
    \A r \in ReservationIds :
        HasReservation(r) =>
            /\ check_in_error(r) =
                   IF <<"check_in", r>> \notin succeeded THEN "OK" ELSE "InvalidState"
            /\ check_out_error(r) =
                   IF <<"check_in", r>> \in succeeded /\ <<"check_out", r>> \notin succeeded
                   THEN "OK" ELSE "InvalidState"

\* check_in and check_out have both succeeded on a reservation and both now fail
C3_Witness ==
    \E r \in ReservationIds :
        /\ <<"check_in", r>> \in succeeded
        /\ <<"check_out", r>> \in succeeded
        /\ check_in_error(r) = "InvalidState"
        /\ check_out_error(r) = "InvalidState"

\* a step that is a call of add_room, add_guest, make_reservation, check_in or
\* check_out raising its error
FailedCall ==
    \/ \E n \in RoomNumbers, t \in RoomTypes, p \in RoomPrices :
           add_room_error(n) # "OK" /\ add_room(n, t, p)
    \/ \E g \in GuestIds, n \in GuestNames :
           add_guest_error(g) # "OK" /\ add_guest(g, n)
    \/ \E g \in GuestIds, n \in RoomNumbers, d \in Stays :
           /\ make_reservation_error(g, n, d[1], d[2]) # "OK"
           /\ make_reservation(g, n, d[1], d[2])
    \/ \E r \in ReservationIds : check_in_error(r) # "OK" /\ check_in(r)
    \/ \E r \in ReservationIds : check_out_error(r) # "OK" /\ check_out(r)

\* C4: a call of add_room, add_guest, make_reservation, check_in or check_out that
\* raises its error leaves rooms (is_occupied included), guests, reservations
\* (flags, services and total_charges included) and next_reservation_id as they
\* were: no step that changes one of them is a failed call.
C4_FailedCallIsNoOp == [][hotel' # hotel => ~FailedCall]_vars

\* a check_in that fails with InvalidState is possible on a reservation that is
\* checked out and whose room is free again
C4_Witness ==
    \E i \in DOMAIN reservations :
        /\ check_in_error(reservations[i].reservation_id) = "InvalidState"
        /\ reservations[i].is_checked_out
        /\ ~GetRoom(reservations[i].room).is_occupied

\* C5: every reservation's total_charges equals price_per_night * nights + the
\* sum of the prices of its services, as calculate_total_charges computes it (so
\* that check_out's recomputation never changes the value).
C5_TotalChargesFormula ==
    \A i \in DOMAIN reservations :
        reservations[i].total_charges = calculate_total_charges(reservations[i])

\* C6: for a known guest and a known room that is not occupied, make_reservation
\* fails with Conflict if and only if some stored reservation on that room has
\* ci < existing.check_out_date AND co > existing.check_in_date, and succeeds
\* otherwise; reservations on other rooms play no part.
C6_ConflictIffOverlap ==
    \A g \in GuestIds, n \in RoomNumbers, d \in Stays :
        (HasGuest(g) /\ HasRoom(n) /\ ~GetRoom(n).is_occupied) =>
            make_reservation_error(g, n, d[1], d[2]) =
                IF OverlapOnRoom(n, d[1], d[2]) THEN "Conflict" ELSE "OK"

\* on a free room holding a checked-out reservation, with space for one more, a
\* request starting on that reservation's check-out date is accepted and one
\* that overlaps it by a day is refused
C6_Witness ==
    \E g \in GuestIds, n \in RoomNumbers, d, e \in Stays, i \in DOMAIN reservations :
        /\ HasGuest(g) /\ HasRoom(n) /\ ~GetRoom(n).is_occupied
        /\ Len(reservations) < MaxReservations
        /\ reservations[i].room = n /\ reservations[i].is_checked_out
        /\ d[1] = reservations[i].check_out_date /\ d[1] < d[2]
        /\ make_reservation_error(g, n, d[1], d[2]) = "OK"
        /\ e[1] = reservations[i].check_out_date - 1 /\ e[2] > reservations[i].check_out_date
        /\ make_reservation_error(g, n, e[1], e[2]) = "Conflict"

\* C7: the k-th stored reservation has id RES-k, the stored ids are pairwise
\* distinct, and next_reservation_id is the number of stored reservations plus 1
\* (a failed call consumes no number).
C7_SequentialIds ==
    /\ next_reservation_id = Len(reservations) + 1
    /\ \A i \in DOMAIN reservations : reservations[i].reservation_id = FormatResId(i)
    /\ \A i, j \in DOMAIN reservations :
           i # j => reservations[i].reservation_id # reservations[j].reservation_id

\* a second reservation has been stored
C7_Witness ==
    /\ Len(reservations) = 2
    /\ reservations[2].reservation_id = FormatResId(2)

\* C8: get_available_rooms(ci, co) returns exactly the rooms that are not occupied
\* and have no reservation with ci < check_out_date AND co > check_in_date, in the
\* order of the room registry.
C8_AvailableRooms ==
    \A d \in Stays :
        LET ret == available_rooms(d[1], d[2])
            Qualifies(room) ==
                ~room.is_occupied /\ ~OverlapOnRoom(room.room_number, d[1], d[2])
        IN  \E at \in [DOMAIN ret -> DOMAIN rooms] :
                /\ \A k \in DOMAIN ret : ret[k] = rooms[at[k]]
                /\ \A k, l \in DOMAIN ret : k < l => at[k] < at[l]
                /\ \A j \in DOMAIN rooms :
                       Qualifies(rooms[j]) <=> \E k \in DOMAIN ret : at[k] = j

\* of two rooms the first is left out only because it is occupied
C8_Witness ==
    \E d \in Stays :
        /\ Len(rooms) = 2
        /\ rooms[1].is_occupied
        /\ ~OverlapOnRoom(rooms[1].room_number, d[1], d[2])
        /\ available_rooms(d[1], d[2]) = <<rooms[2]>>

\* C9: no step removes a reservation, clears is_checked_in or is_checked_out, or
\* takes a reservation that is not checked in to checked out.
C9_LinearLifecycle ==
    [][\A i \in DOMAIN reservations :
           /\ i \in DOMAIN reservations'
           /\ reservations'[i].reservation_id = reservations[i].reservation_id
           /\ reservations[i].is_checked_in => reservations'[i].is_checked_in
           /\ reservations[i].is_checked_out => reservations'[i].is_checked_out
           /\ ~(~reservations[i].is_checked_in /\ reservations'[i].is_checked_out)]_vars

\* a checked-out reservation and a checked-in one are held together
C9_Witness ==
    \E i, j \in DOMAIN reservations :
        /\ reservations[i].is_checked_in /\ reservations[i].is_checked_out
        /\ reservations[j].is_checked_in /\ ~reservations[j].is_checked_out

\* C10: every reservation with is_checked_out = true has is_checked_in = true.
C10_CheckedOutImpliesCheckedIn ==
    \A i \in DOMAIN reservations :
        reservations[i].is_checked_out => reservations[i].is_checked_in

\* a check_out has succeeded on a reservation
C10_Witness ==
    \E i \in DOMAIN reservations :
        /\ reservations[i].is_checked_out
        /\ <<"check_out", reservations[i].reservation_id>> \in succeeded

\* C11: add_service on a stored reservation, in any lifecycle state, appends
\* (name, price) at the end of services_used, increases total_charges by exactly
\* price and leaves the flags, the dates and the rooms unchanged; for an unknown
\* reservation id nothing is mutated.
C11_AddServiceEffect ==
    [][\A r \in ReservationIds, s \in ServiceNames, p \in ServicePrices :
           add_service(r, s, p) =>
               IF HasReservation(r)
               THEN /\ reservations' =
                           [reservations EXCEPT
                               ![ReservationIndex(r)].services_used = Append(@, <<s, p>>),
                               ![ReservationIndex(r)].total_charges = @ + p]
                    /\ UNCHANGED <<rooms, guests, next_reservation_id>>
               ELSE UNCHANGED hotel]_vars

\* C13: add_room fails with DuplicateKey when the room_number is already stored and
\* add_guest fails with DuplicateKey when the guest_id is already stored, both
\* keeping the stored entry; otherwise the entry is added at the end.  Room
\* numbers and guest ids are unique keys and neither registry ever shrinks or
\* loses an entry.
C13_UniqueKeysNoShrink ==
    /\ [](/\ \A i, j \in DOMAIN rooms :
                 i # j => rooms[i].room_number # rooms[j].room_number
          /\ \A i, j \in DOMAIN guests :
                 i # j => guests[i].guest_id # guests[j].guest_id
          /\ \A n \in RoomNumbers :
                 (\E i \in DOMAIN rooms : rooms[i].room_number = n)
                     => add_room_error(n) = "DuplicateKey"
          /\ \A g \in GuestIds :
                 (\E i \in DOMAIN guests : guests[i].guest_id = g)
                     => add_guest_error(g) = "DuplicateKey")
    /\ [][/\ Len(rooms') >= Len(rooms)
          /\ Len(guests') >= Len(guests)
          /\ \A i \in DOMAIN rooms : rooms'[i].room_number = rooms[i].room_number
          /\ \A i \in DOMAIN guests : guests'[i] = guests[i]
          /\ \A n \in RoomNumbers, t \in RoomTypes, p \in RoomPrices :
                 add_room(n, t, p) =>
                     IF \E i \in DOMAIN rooms : rooms[i].room_number = n
                     THEN rooms' = rooms
                     ELSE rooms' = Append(rooms, Room(n, t, p))
          /\ \A g \in GuestIds, n \in GuestNames :
                 add_guest(g, n) =>
                     IF \E i \in DOMAIN guests : guests[i].guest_id = g
                     THEN guests' = guests
                     ELSE guests' = Append(guests, Guest(g, n))]_vars

\* both registries hold entries and a stored room is occupied, so that a second
\* add_room of its number would have to keep an entry that differs from a new Room
C13_Witness ==
    /\ Len(rooms) = 2
    /\ Len(guests) = 1
    /\ \E i \in DOMAIN rooms :
           /\ rooms[i].is_occupied
           /\ add_room_error(rooms[i].room_number) = "DuplicateKey"
    /\ add_guest_error(guests[1].guest_id) = "DuplicateKey"

\* C14: every stored reservation has check_out_date strictly later than
\* check_in_date, so its number of nights is at least 1.
C14_CheckOutAfterCheckIn ==
    \A i \in DOMAIN reservations :
        reservations[i].check_out_date > reservations[i].check_in_date

\* C16: a room's is_occupied changes only in a successful check_in (to true) or a
\* successful check_out (to false) of a reservation on that room: every other
\* operation, and check_in / check_out for the other rooms, leave it unchanged.
C16_OccupiedOnlyByCheckInOut ==
    [][\A i \in DOMAIN rooms :
           (i \in DOMAIN rooms' /\ rooms'[i].is_occupied = rooms[i].is_occupied)
           \/ \E r \in ReservationIds :
                  /\ HasReservation(r)
                  /\ reservations[ReservationIndex(r)].room = rooms[i].room_number
                  /\ \/ /\ check_in_error(r) = "OK"
                        /\ check_in(r)
                        /\ rooms'[i].is_occupied
                     \/ /\ check_out_error(r) = "OK"
                        /\ check_out(r)
                        /\ ~rooms'[i].is_occupied]_vars

\* one room is occupied by a checked-in reservation while the other room, whose
\* reservation has been checked out, is free
C16_Witness ==
    \E i, j \in DOMAIN rooms, a, b \in DOMAIN reservations :
        /\ rooms[i].is_occupied /\ ~rooms[j].is_occupied
        /\ reservations[a].room = rooms[i].room_number
        /\ reservations[a].is_checked_in /\ ~reservations[a].is_checked_out
        /\ reservations[b].room = rooms[j].room_number
        /\ reservations[b].is_checked_out

\* a reservation that is checked in and not yet checked out
Active(reservation) == reservation.is_checked_in /\ ~reservation.is_checked_out

\* C17: a room's is_occupied is true if and only if at least one reservation on
\* that room is checked in and not yet checked out.
C17_OccupiedIffActiveReservation ==
    \A i \in DOMAIN rooms :
        rooms[i].is_occupied <=>
            \E a \in DOMAIN reservations :
                reservations[a].room = rooms[i].room_number /\ Active(reservations[a])

\* C18: each room has at most one reservation that is checked in and not yet
\* checked out.
C18_AtMostOneActivePerRoom ==
    \A a, b \in DOMAIN reservations :
        (/\ a # b
         /\ reservations[a].room = reservations[b].room
         /\ Active(reservations[a]))
        => ~Active(reservations[b])

\* every date that occurs in a stay, and whether a room number is in the list
\* get_available_rooms returns
StayDates == UNION {{d[1], d[2]} : d \in Stays}

Listed(room_number, check_in_date, check_out_date) ==
    \E k \in DOMAIN available_rooms(check_in_date, check_out_date) :
        available_rooms(check_in_date, check_out_date)[k].room_number = room_number

\* C19: in every reachable state, for every known guest, every known room and
\* every pair of dates, make_reservation succeeds if and only if the room is in
\* the list get_available_rooms returns for those dates.
C19_ReservationAgreesWithAvailability ==
    \A g \in GuestIds, n \in RoomNumbers, ci \in StayDates, co \in StayDates :
        (HasGuest(g) /\ HasRoom(n)) =>
            (make_reservation_error(g, n, ci, co) = "OK" <=> Listed(n, ci, co))

\* a known guest and two free rooms, one of them reserved: for some dates the
\* reserved room is refused for its dates and not listed, for other dates it is
\* accepted and listed, and the other room is accepted and listed
C19_Witness ==
    /\ Len(guests) = 1 /\ Len(rooms) = 2 /\ Len(reservations) = 1
    /\ \A i \in DOMAIN rooms : ~rooms[i].is_occupied
    /\ \E g \in GuestIds, n \in RoomNumbers, m \in RoomNumbers, d \in Stays, e \in Stays :
          /\ HasGuest(g) /\ reservations[1].room = n /\ m # n
          /\ make_reservation_error(g, n, d[1], d[2]) = "Conflict"
          /\ ~Listed(n, d[1], d[2])
          /\ make_reservation_error(g, m, d[1], d[2]) = "OK"
          /\ Listed(m, d[1], d[2])
          /\ make_reservation_error(g, n, e[1], e[2]) = "OK"
          /\ Listed(n, e[1], e[2])

\* services_used with every pair as the list a JSON array is read back as
AsLists(services) ==
    [k \in DOMAIN services |-> <<services[k][1], services[k][2], "list">>]

\* the reservations with the same ids, guests, rooms, dates, flags and charges,
\* and the same service names and prices in the same order
SameReservations(loaded, saved) ==
    loaded = [i \in DOMAIN saved |->
                 [saved[i] EXCEPT !.services_used = AsLists(@)]]

\* C12: for every reachable hotel state, loading the document save_to_file
\* writes of it raises nothing and yields a hotel with the same name,
\* next_reservation_id, rooms (is_occupied included), guests and reservations
\* (ids, dates, flags, services in order, total_charges), every loaded
\* reservation naming a guest and a room of the loaded registries; a load of
\* the file that holds the current hotel leaves exactly that; and a check_in or
\* check_out that succeeds, on a loaded reservation as on any, sets or clears
\* is_occupied of the reservation's room in the room registry.
C12_RoundTrip ==
    /\ [](LET loaded == LoadedHotel(data)
          IN  /\ load_from_file_error(data) = "OK"
              /\ loaded.name = hotel_name
              /\ loaded.next_reservation_id = next_reservation_id
              /\ loaded.rooms = rooms
              /\ loaded.guests = guests
              /\ SameReservations(loaded.reservations, reservations)
              /\ \A i \in DOMAIN loaded.reservations :
                    /\ Has(loaded.rooms, loaded.reservations[i].room)
                    /\ Has(loaded.guests, loaded.reservations[i].guest))
    /\ [][(file' = file /\ file = <<data>> /\ LoadData) =>
              /\ hotel_name' = hotel_name
              /\ next_reservation_id' = next_reservation_id
              /\ rooms' = rooms
              /\ guests' = guests
              /\ SameReservations(reservations', reservations)]_vars
    /\ [][reservations' # reservations =>
              \A r \in ReservationIds :
                  /\ (check_in_error(r) = "OK" /\ check_in(r)) =>
                         rooms'[RoomIndex(reservations[ReservationIndex(r)].room)].is_occupied
                  /\ (check_out_error(r) = "OK" /\ check_out(r)) =>
                         ~rooms'[RoomIndex(reservations[ReservationIndex(r)].room)].is_occupied]_vars

\* the hotel of the user's document has been loaded, a room and a service
\* added and the hotel saved and loaded again, so that the first service
\* is a list; then a second service was added and the reservation checked in,
\* which shows in the room registry, and the hotel was saved
C12_Witness ==
    /\ hotel_name = "Sea View"
    /\ file = <<data>>
    /\ Len(rooms) = 2
    /\ Len(reservations) = 1
    /\ reservations[1].is_checked_in
    /\ ~reservations[1].is_checked_out
    /\ GetRoom(reservations[1].room).is_occupied
    /\ Len(reservations[1].services_used) = 2
    /\ Len(reservations[1].services_used[1]) = 3
    /\ Len(reservations[1].services_used[2]) = 2

\* a reservation of the document names a guest or a room that the document's
\* guests or rooms do not hold
Dangling(json_data) ==
    \E k \in DOMAIN json_data.reservations :
        \/ ~\E i \in DOMAIN json_data.guests :
               json_data.guests[i].guest_id = json_data.reservations[k].guest_id
        \/ ~\E i \in DOMAIN json_data.rooms :
               json_data.rooms[i].room_number = json_data.reservations[k].room_number

\* C15: when a reservation of the file names a guest_id or room_number that is
\* absent from the file's guests or rooms, load fails with the NotFound error
\* kind, the kind make_reservation reports for an unknown guest or room.
C15_DanglingLoadIsNotFound ==
    (file # <<>> /\ Dangling(file[1])) => load_from_file_error(file[1]) = "NotFound"

====
